---- MODULE Spec2Model ----
(***************************************************************************)
(* A model of the Chopsticks repository: the two games of games.py         *)
(* (SubtractSquare and Chopsticks), their states, and the strategies of    *)
(* strategy.py.                                                            *)
(*                                                                         *)
(* Python values are modelled as follows.                                  *)
(*   - a str is a sequence of one-character strings: 'lr' is <<"l","r">>;  *)
(*   - an object is a record whose field "type" is the name of its class;  *)
(*   - a move, and any value given for one, is a record [type, val] with   *)
(*     the name of its type (int, str); None is the record of type         *)
(*     NoneType; a call that raises an exception returns the record of     *)
(*     type "raise" that names it;                                         *)
(*   - a list is a sequence; a set is a set.  list(a_set) has an order the *)
(*     language does not define: it is a parameter `ord` of every operator *)
(*     that depends on it, and is chosen afresh at every call.             *)
(***************************************************************************)
EXTENDS Integers, Sequences, FiniteSets, TLC

VARIABLES game, last, other, recv, ret, heap

vars == <<game, last, other, recv, ret, heap>>

(***************************************************************************)
(* Bounds of the model.                                                    *)
(***************************************************************************)
\* the largest number a SubtractSquare game starts from
MaxNumber == 20
\* the largest number a game starts from where two games are compared
MaxEqNumber == 4
\* the largest hand value of the states that are compared for equality
MaxEqHand == 2
\* the number of turns played, in all, by two games that are compared
MaxEqTurns == 4
\* the number of state objects made where objects are told apart
MaxHeapStates == 3
\* the longest string, and the largest int (of either sign), given to
\* str_to_move
MaxParseLen == 2
MaxParseInt == 4
\* how often a game is followed back to the state of its cycle
MaxVisits == 2

(***************************************************************************)
(* Python values.                                                          *)
(***************************************************************************)
Players == {"p1", "p2"}

PyInt(n) == [type |-> "int", val |-> n]

PyStr(s) == [type |-> "str", val |-> s]

None == [type |-> "NoneType"]

\* the outcome of a call that raises the exception named
Raised(exception) == [type |-> "raise", val |-> exception]

Range(seq) == {seq[i] : i \in DOMAIN seq}

\* x in a_list
In(x, lst) == \E i \in DOMAIN lst : lst[i] = x

\* s[i] for a str s
char_at(s, i) == PyStr(<<s.val[i + 1]>>)

l == PyStr(<<"l">>)

r == PyStr(<<"r">>)

ll == PyStr(<<"l", "l">>)

lr == PyStr(<<"l", "r">>)

rl == PyStr(<<"r", "l">>)

rr == PyStr(<<"r", "r">>)

Tokens == {ll, lr, rl, rr}

\* the characters int() reads
DecimalDigits == {"0", "1", "2", "3", "4", "5", "6", "7", "8", "9"}

\* the characters str.isdigit() accepts: the decimal digits and the other
\* characters Unicode calls digits, of which the model has SUPERSCRIPT TWO,
\* written "sup2"
Digits == DecimalDigits \cup {"sup2"}

DigitValue(c) ==
    CASE c = "0" -> 0 [] c = "1" -> 1 [] c = "2" -> 2 [] c = "3" -> 3
      [] c = "4" -> 4 [] c = "5" -> 5 [] c = "6" -> 6 [] c = "7" -> 7
      [] c = "8" -> 8 [] c = "9" -> 9

\* str.isdigit(): a non-empty string of digits
isdigit(s) == Len(s) > 0 /\ \A i \in DOMAIN s : s[i] \in Digits

RECURSIVE int(_)
\* int(s) of a string of decimal digits
int(s) ==
    IF Len(s) = 0 THEN 0
    ELSE 10 * int(SubSeq(s, 1, Len(s) - 1)) + DigitValue(s[Len(s)])

\* the orders in which a set of tokens may be iterated
Orders == {o \in [1..4 -> Tokens] : \A t \in Tokens : \E i \in 1..4 : o[i] = t}

RECURSIVE Filter(_, _)
\* the elements of the sequence seq that are in the set S, in the order of seq
Filter(seq, S) ==
    IF seq = <<>> THEN <<>>
    ELSE (IF Head(seq) \in S THEN <<Head(seq)>> ELSE <<>>) \o Filter(Tail(seq), S)

\* list(S) when the set S is iterated in the order ord
list(S, ord) == Filter(ord, S)

(***************************************************************************)
(* class CurrentState and its two subclasses.                              *)
(***************************************************************************)
\* SubtractSquareState(current_player, number)
SubtractSquareState(current_player, number) ==
    [type |-> "SubtractSquareState", current_player |-> current_player,
     number |-> number]

\* ChopsticksState(current_player, hands); hands[i] of the code is hands[i + 1]
ChopsticksState(current_player, hands) ==
    [type |-> "ChopsticksState", current_player |-> current_player,
     hands |-> hands]

RECURSIVE isqrt(_, _)
\* the largest r >= from with r * r <= num (from * from <= num)
isqrt(num, from) ==
    IF (from + 1) * (from + 1) > num THEN from ELSE isqrt(num, from + 1)

\* num ** (1/2): a float, kept as its integer part and whether it has a
\* fractional part.  For the numbers of the model (far below 2 ** 52) the
\* float square root of a perfect square is exact and that of any other
\* number is not an integer.
pow_half(num) ==
    LET root == isqrt(num, 0) IN [floor |-> root, frac |-> root * root /= num]

\* x % 1 == 0 for a non-negative float x
mod_one_is_zero(x) == ~x.frac

RECURSIVE comprehension(_, _)
\* [num for num in range(start, stop) if num ** (1/2) % 1 == 0]
comprehension(start, stop) ==
    IF start >= stop THEN <<>>
    ELSE (IF mod_one_is_zero(pow_half(start)) THEN <<PyInt(start)>> ELSE <<>>)
         \o comprehension(start + 1, stop)

\* a bug: range(1, self.number), which leaves the number itself out
SubtractSquareState_get_possible_moves_short(self) ==
    comprehension(1, self.number)

\* SubtractSquareState.get_possible_moves
SubtractSquareState_get_possible_moves(self) ==
    comprehension(1, self.number + 1)

\* a bug: the player who moved is to move again
new_player_same(current_player) == current_player

\* the new_player of both make_move methods
new_player(current_player) == IF current_player = "p1" THEN "p2" ELSE "p1"

\* a bug: the new state keeps the player who moved
SubtractSquareState_make_move_same_player(self, move) ==
    SubtractSquareState(self.current_player, self.number - move.val)

\* not the code: a make_move that leaves the state as it is when the move is
\* not a possible one
SubtractSquareState_make_move_checked(self, move) ==
    IF In(move, SubtractSquareState_get_possible_moves(self))
    THEN SubtractSquareState(new_player(self.current_player),
                             self.number - move.val)
    ELSE self

\* SubtractSquareState.make_move
SubtractSquareState_make_move(self, move) ==
    SubtractSquareState(new_player(self.current_player),
                        self.number - move.val)

\* SubtractSquareState.__eq__
SubtractSquareState_eq(self, o) ==
    /\ self.type = o.type
    /\ self.current_player = o.current_player
    /\ self.number = o.number

\* a bug: the tokens of each player name that player's own hands
hand_index_own_hands ==
    [p \in Players |->
        IF p = "p1"
        THEN (l :> 0) @@ (r :> 1) @@ (ll :> 0) @@ (rl :> 0)
             @@ (lr :> 1) @@ (rr :> 1)
        ELSE (l :> 2) @@ (r :> 3) @@ (ll :> 2) @@ (rl :> 2)
             @@ (lr :> 3) @@ (rr :> 3)]

\* ChopsticksState.hand_index
hand_index ==
    [p \in Players |->
        IF p = "p1"
        THEN (l :> 0) @@ (r :> 1) @@ (ll :> 2) @@ (rl :> 2)
             @@ (lr :> 3) @@ (rr :> 3)
        ELSE (l :> 2) @@ (r :> 3) @@ (ll :> 0) @@ (rl :> 0)
             @@ (lr :> 1) @@ (rr :> 1)]

\* a bug: the opponent's right hand is not looked at
moves_to_remove_three(self) ==
    LET current_left_hand == IF self.current_player = "p1" THEN 0 ELSE 2
        opponent_left_hand == IF self.current_player = "p1" THEN 2 ELSE 0
    IN  (IF self.hands[current_left_hand + 1] = 0 THEN {ll, lr} ELSE {})
        \cup (IF self.hands[current_left_hand + 1 + 1] = 0 THEN {rl, rr} ELSE {})
        \cup (IF self.hands[opponent_left_hand + 1] = 0 THEN {ll, rl} ELSE {})

\* a bug: the mover's right hand is not looked at
moves_to_remove_no_own_right(self) ==
    LET current_left_hand == IF self.current_player = "p1" THEN 0 ELSE 2
        opponent_left_hand == IF self.current_player = "p1" THEN 2 ELSE 0
    IN  (IF self.hands[current_left_hand + 1] = 0 THEN {ll, lr} ELSE {})
        \cup (IF self.hands[opponent_left_hand + 1] = 0 THEN {ll, rl} ELSE {})
        \cup (IF self.hands[opponent_left_hand + 1 + 1] = 0 THEN {lr, rr} ELSE {})

\* the set moves_to_remove of ChopsticksState.get_possible_moves
moves_to_remove(self) ==
    LET current_left_hand == IF self.current_player = "p1" THEN 0 ELSE 2
        opponent_left_hand == IF self.current_player = "p1" THEN 2 ELSE 0
    IN  (IF self.hands[current_left_hand + 1] = 0 THEN {ll, lr} ELSE {})
        \cup (IF self.hands[current_left_hand + 1 + 1] = 0 THEN {rl, rr} ELSE {})
        \cup (IF self.hands[opponent_left_hand + 1] = 0 THEN {ll, rl} ELSE {})
        \cup (IF self.hands[opponent_left_hand + 1 + 1] = 0 THEN {lr, rr} ELSE {})

\* ChopsticksState.get_possible_moves; ord is the order in which the set
\* possible_moves - moves_to_remove is iterated by list()
ChopsticksState_get_possible_moves(self, ord) ==
    LET possible_moves == {ll, lr, rl, rr}
    IN  list(possible_moves \ moves_to_remove(self), ord)

\* a bug: the sum is not reduced modulo 5
ChopsticksState_make_move_no_mod(self, move) ==
    LET change_index == hand_index[self.current_player][move]
        current_player_index == hand_index[self.current_player][char_at(move, 0)]
        return_hands ==
            [self.hands EXCEPT ![change_index + 1] =
                self.hands[change_index + 1]
                + self.hands[current_player_index + 1]]
    IN  ChopsticksState(new_player(self.current_player), return_hands)

\* ChopsticksState.make_move
ChopsticksState_make_move(self, move) ==
    LET change_index == hand_index[self.current_player][move]
        current_player_index == hand_index[self.current_player][char_at(move, 0)]
        return_hands ==
            [self.hands EXCEPT ![change_index + 1] =
                (self.hands[change_index + 1]
                 + self.hands[current_player_index + 1]) % 5]
    IN  ChopsticksState(new_player(self.current_player), return_hands)

\* a bug: the player due to move is not compared
ChopsticksState_eq_hands_only(self, o) ==
    /\ self.type = o.type
    /\ self.hands = o.hands

\* ChopsticksState.__eq__
ChopsticksState_eq(self, o) ==
    /\ self.type = o.type
    /\ self.current_player = o.current_player
    /\ self.hands = o.hands

\* state.get_possible_moves(), dispatched on the class of state
get_possible_moves(state, ord) ==
    IF state.type = "SubtractSquareState"
    THEN SubtractSquareState_get_possible_moves(state)
    ELSE ChopsticksState_get_possible_moves(state, ord)

\* state.make_move(move), dispatched on the class of state
make_move(state, move) ==
    IF state.type = "SubtractSquareState"
    THEN SubtractSquareState_make_move(state, move)
    ELSE ChopsticksState_make_move(state, move)

\* a == b for two states, dispatched on the class of a
state_eq(a, b) ==
    IF a.type = "SubtractSquareState"
    THEN SubtractSquareState_eq(a, b)
    ELSE ChopsticksState_eq(a, b)

\* CurrentState.is_valid_move
is_valid_move(state, move, ord) == In(move, get_possible_moves(state, ord))

(***************************************************************************)
(* class Game and its two subclasses.                                      *)
(***************************************************************************)
\* Game.__init__: the starting player
Game_player(is_p1_turn) == IF is_p1_turn THEN "p1" ELSE "p2"

\* SubtractSquare(is_p1_turn), where initial_num is the number read from the
\* user: int() of the first input that is a string of digits
SubtractSquare(is_p1_turn, initial_num) ==
    [type |-> "SubtractSquare", player |-> Game_player(is_p1_turn),
     current_state |->
        SubtractSquareState(Game_player(is_p1_turn), initial_num)]

\* Chopsticks(is_p1_turn)
Chopsticks(is_p1_turn) ==
    [type |-> "Chopsticks", player |-> Game_player(is_p1_turn),
     current_state |->
        ChopsticksState(Game_player(is_p1_turn), <<1, 1, 1, 1>>)]

SubtractSquare_INSTRUCTIONS ==
    "Players take turns subtracting square numbers from the starting number. The winner is the person who subtracts to 0."

Chopsticks_INSTRUCTIONS ==
    "Players take turns adding the values of one of their hands to one of their opponents (modulo 5). A hand with a total of 5 (or 0; 5 modulo 5) is considered 'dead'. The first player to have 2 dead hands is the loser."

\* game.get_instructions(), dispatched on the class of game
get_instructions(self) ==
    IF self.type = "SubtractSquare" THEN SubtractSquare_INSTRUCTIONS
    ELSE Chopsticks_INSTRUCTIONS

\* issubclass(cls, Game)
issubclass_Game(cls) == cls \in {"Game", "SubtractSquare", "Chopsticks"}

\* int(s) of a str: ValueError unless s is a string of decimal digits (the
\* only strings it is called with are those isdigit() accepts)
int_of_str(s) ==
    IF \A i \in DOMAIN s : s[i] \in DecimalDigits THEN PyInt(int(s))
    ELSE Raised("ValueError")

\* SubtractSquare.str_to_move; move.isdigit is an AttributeError when move
\* is neither an int nor a str
SubtractSquare_str_to_move(move) ==
    IF move.type = "int" THEN move
    ELSE IF move.type /= "str" THEN Raised("AttributeError")
    ELSE IF isdigit(move.val) THEN int_of_str(move.val)
    ELSE None

\* a bug: 'rr' is missing from the list of tokens
Chopsticks_str_to_move_three(move) ==
    IF In(move, <<ll, lr, rl>>) THEN move ELSE None

\* Chopsticks.str_to_move
Chopsticks_str_to_move(move) ==
    IF In(move, <<ll, lr, rl, rr>>) THEN move ELSE None

\* game.str_to_move(move), dispatched on the class of game
str_to_move(self, move) ==
    IF self.type = "SubtractSquare" THEN SubtractSquare_str_to_move(move)
    ELSE Chopsticks_str_to_move(move)

\* Game.is_over
is_over(state, ord) == get_possible_moves(state, ord) = <<>>

\* a bug: the player due to move in the final state is reported as winner
is_winner_to_move(self, player, ord) ==
    IF is_over(self.current_state, ord)
    THEN self.current_state.current_player = player
    ELSE FALSE

\* Game.is_winner
is_winner(self, player, ord) ==
    IF is_over(self.current_state, ord)
    THEN self.current_state.current_player /= player
    ELSE FALSE

\* a bug (or another design): the current states are compared too
Game_eq_with_state(self, o) ==
    /\ issubclass_Game(self.type) = issubclass_Game(o.type)
    /\ get_instructions(self) = get_instructions(o)
    /\ self.current_state = o.current_state

\* Game.__eq__
Game_eq(self, o) ==
    /\ issubclass_Game(self.type) = issubclass_Game(o.type)
    /\ get_instructions(self) = get_instructions(o)

(***************************************************************************)
(* strategy.py                                                             *)
(***************************************************************************)
\* interactive_strategy(game), where text is the line the user enters
interactive_strategy(g, text) == str_to_move(g, text)

\* random_strategy(game), where choice() takes the k-th element of the list
random_strategy(g, ord, k) ==
    LET move == get_possible_moves(g.current_state, ord)[k]
    IN  str_to_move(g, move)

(***************************************************************************)
(* A game being played: a turn asks a strategy for a move and, when the    *)
(* move is valid, replaces the current state of the game by               *)
(* current_state.make_move(move).  `last` records the last turn: the       *)
(* strategy asked, the state it was asked in, the move it returned, and    *)
(* the player who made the last move that was applied; it also records     *)
(* whether the number of moves applied so far is odd, and the starting     *)
(* player the game was constructed with.                                   *)
(***************************************************************************)
\* the lines a user may enter
Texts ==
    {ll, lr, rl, rr, PyStr(<<"a", "b">>), PyStr(<<"1">>), PyStr(<<"2">>),
     PyStr(<<"4">>), PyStr(<<"9">>), PyStr(<<"1", "6">>)}

\* the games a program may construct
NewGames(max) ==
    {Chopsticks(b) : b \in BOOLEAN}
    \cup {SubtractSquare(b, n) : b \in BOOLEAN, n \in 0..max}

\* one turn of the game g with the move a strategy returned
play(g, move, ord) ==
    IF is_valid_move(g.current_state, move, ord)
    THEN [g EXCEPT !.current_state = make_move(g.current_state, move)]
    ELSE g

Turn(strategy, move, ord) ==
    /\ game' = play(game, move, ord)
    /\ last' = [strategy |-> strategy, state |-> game.current_state,
                move |-> move,
                mover |-> IF is_valid_move(game.current_state, move, ord)
                          THEN game.current_state.current_player
                          ELSE last.mover,
                odd |-> IF is_valid_move(game.current_state, move, ord)
                        THEN ~last.odd
                        ELSE last.odd,
                start |-> last.start]
    /\ UNCHANGED <<other, recv, ret, heap>>

RandomTurn ==
    \E ord \in Orders :
        /\ ~is_over(game.current_state, ord)
        /\ \E k \in DOMAIN get_possible_moves(game.current_state, ord) :
              Turn("random", random_strategy(game, ord, k), ord)

InteractiveTurn ==
    \E ord \in Orders, text \in Texts :
        /\ ~is_over(game.current_state, ord)
        /\ Turn("interactive", interactive_strategy(game, text), ord)

Init ==
    /\ game \in NewGames(MaxNumber)
    /\ last = [strategy |-> "none", state |-> game.current_state,
               move |-> None, mover |-> "none", odd |-> FALSE,
               start |-> game.player]
    /\ other = None
    /\ recv = None
    /\ ret = None
    /\ heap = <<>>

Next == RandomTurn \/ InteractiveTurn

Spec == Init /\ [][Next]_vars

(***************************************************************************)
(* The methods of a state, called on any state: recv is the receiver and   *)
(* ret records the last call, its argument and what it returned.           *)
(***************************************************************************)
\* the hands of the code: a list of 4 values, each in 0..max
Hands(max) == [1..4 -> 0..max]

\* the states ChopsticksState(...) and SubtractSquareState(...) construct
States(max_hand, max_number) ==
    {ChopsticksState(p, h) : p \in Players, h \in Hands(max_hand)}
    \cup {SubtractSquareState(p, n) : p \in Players, n \in 0..max_number}

\* the moves make_move is called with: any token, any number from 1
MoveArgs(state) ==
    IF state.type = "ChopsticksState" THEN {ll, lr, rl, rr}
    ELSE {PyInt(m) : m \in 1..MaxNumber}

CallGetPossibleMoves ==
    /\ \E ord \in Orders :
          ret' = [op |-> "get_possible_moves", arg |-> ord,
                  val |-> get_possible_moves(recv, ord)]
    /\ UNCHANGED <<game, last, other, recv, heap>>

CallMakeMove ==
    /\ \E move \in MoveArgs(recv) :
          ret' = [op |-> "make_move", arg |-> move,
                  val |-> make_move(recv, move)]
    /\ UNCHANGED <<game, last, other, recv, heap>>

InitFn ==
    /\ recv \in States(4, MaxNumber)
    /\ ret = None
    /\ game = None
    /\ last = None
    /\ other = None
    /\ heap = <<>>

NextFn == CallGetPossibleMoves \/ CallMakeMove

SpecFn == InitFn /\ [][NextFn]_vars

(***************************************************************************)
(* Two states compared: recv == other.                                     *)
(***************************************************************************)
CallStateEq ==
    /\ ret' = [op |-> "__eq__", arg |-> other, val |-> state_eq(recv, other)]
    /\ UNCHANGED <<game, last, other, recv, heap>>

InitStateEq ==
    /\ recv \in States(MaxEqHand, MaxEqNumber)
    /\ other \in States(MaxEqHand, MaxEqNumber)
    /\ ret = None
    /\ game = None
    /\ last = None
    /\ heap = <<>>

NextStateEq == CallStateEq

SpecStateEq == InitStateEq /\ [][NextStateEq]_vars

(***************************************************************************)
(* Two games, each being played, compared: game == other.  A move of       *)
(* either game forgets the last comparison; last counts the turns played.  *)
(***************************************************************************)
GameTurn ==
    /\ last.turns < MaxEqTurns
    /\ \E ord \in Orders :
          \E k \in DOMAIN get_possible_moves(game.current_state, ord) :
              game' = play(game, random_strategy(game, ord, k), ord)
    /\ last' = [turns |-> last.turns + 1]
    /\ ret' = None
    /\ UNCHANGED <<other, recv, heap>>

OtherTurn ==
    /\ last.turns < MaxEqTurns
    /\ \E ord \in Orders :
          \E k \in DOMAIN get_possible_moves(other.current_state, ord) :
              other' = play(other, random_strategy(other, ord, k), ord)
    /\ last' = [turns |-> last.turns + 1]
    /\ ret' = None
    /\ UNCHANGED <<game, recv, heap>>

CallGameEq ==
    /\ ret' = [op |-> "__eq__", arg |-> other, val |-> Game_eq(game, other)]
    /\ UNCHANGED <<game, last, other, recv, heap>>

InitGameEq ==
    /\ game \in NewGames(MaxEqNumber)
    /\ other \in NewGames(MaxEqNumber)
    /\ ret = None
    /\ last = [turns |-> 0]
    /\ recv = None
    /\ heap = <<>>

NextGameEq == GameTurn \/ OtherTurn \/ CallGameEq

SpecGameEq == InitGameEq /\ [][NextGameEq]_vars

(***************************************************************************)
(* The rules of the two games, as the specification states them.           *)
(***************************************************************************)
Opponent(p) == IF p = "p1" THEN "p2" ELSE "p1"

\* the place in hands of the hand of player p named by the letter c
HandOf(p, c) == (IF p = "p1" THEN 1 ELSE 3) + (IF c = "l" THEN 0 ELSE 1)

\* the place in hands of the hand that acts, and of the hand that is touched
ActingHand(p, token) == HandOf(p, token.val[1])

TargetHand(p, token) == HandOf(Opponent(p), token.val[2])

IsSquare(k) == \E j \in 1..k : j * j = k

NoDuplicates(lst) == \A i, j \in DOMAIN lst : lst[i] = lst[j] => i = j

Increasing(lst) ==
    \A i, j \in DOMAIN lst : i < j => lst[i].val < lst[j].val

CalledOn(op, type) == ret /= None /\ ret.op = op /\ recv.type = type

\* C1: ChopsticksState.make_move(token), for any player, any hands in 0..4
\* and any of the four tokens, returns a ChopsticksState of the other player
\* whose hands are those of the receiver except the opponent's hand named by
\* the second letter, which is (its value + the value of the mover's hand
\* named by the first letter) mod 5; (p1,[1,1,1,1]) 'll' gives
\* (p2,[1,1,2,1]) and (p2,[1,2,3,1]) 'lr' gives (p1,[1,0,3,1]).
C1_ChopsticksMakeMove ==
    CalledOn("make_move", "ChopsticksState") =>
        LET p == recv.current_player
            src == ActingHand(p, ret.arg)
            tgt == TargetHand(p, ret.arg)
        IN  /\ ret.val.type = "ChopsticksState"
            /\ ret.val.current_player = Opponent(p)
            /\ DOMAIN ret.val.hands = 1..4
            /\ ret.val.hands[tgt] = (recv.hands[tgt] + recv.hands[src]) % 5
            /\ \A i \in 1..4 : i /= tgt => ret.val.hands[i] = recv.hands[i]
            /\ (recv = ChopsticksState("p1", <<1, 1, 1, 1>>) /\ ret.arg = ll
                    => ret.val = ChopsticksState("p2", <<1, 1, 2, 1>>))
            /\ (recv = ChopsticksState("p2", <<1, 2, 3, 1>>) /\ ret.arg = lr
                    => ret.val = ChopsticksState("p1", <<1, 0, 3, 1>>))

\* a sum of 5 has been reduced to 0: (p2,[1,2,3,1]) 'lr' gave (p1,[1,0,3,1])
C1_Witness ==
    /\ CalledOn("make_move", "ChopsticksState")
    /\ recv = ChopsticksState("p2", <<1, 2, 3, 1>>)
    /\ ret.arg = lr
    /\ ret.val = ChopsticksState("p1", <<1, 0, 3, 1>>)

\* C2: ChopsticksState.get_possible_moves(), for any player and any hands in
\* 0..4, returns a list without duplicates of tokens, and a token xy is in
\* it iff the mover's hand x and the opponent's hand y are both non-zero;
\* (p1,[1,1,1,1]) gives the four tokens and (p2,[1,3,1,0]) gives ll and lr.
C2_ChopsticksPossibleMoves ==
    CalledOn("get_possible_moves", "ChopsticksState") =>
        LET p == recv.current_player IN
        /\ Range(ret.val) \subseteq Tokens
        /\ NoDuplicates(ret.val)
        /\ \A token \in Tokens :
              In(token, ret.val) <=>
                  /\ recv.hands[ActingHand(p, token)] /= 0
                  /\ recv.hands[TargetHand(p, token)] /= 0
        /\ (recv = ChopsticksState("p1", <<1, 1, 1, 1>>)
                => Range(ret.val) = {ll, lr, rl, rr})
        /\ (recv = ChopsticksState("p2", <<1, 3, 1, 0>>)
                => Range(ret.val) = {ll, lr})

\* the moves of (p2,[1,3,1,0]) have been listed: p2's right hand is dead
C2_Witness ==
    /\ CalledOn("get_possible_moves", "ChopsticksState")
    /\ recv = ChopsticksState("p2", <<1, 3, 1, 0>>)
    /\ Len(ret.val) = 2

\* C3: SubtractSquareState.get_possible_moves(), for any number n from 0 to
\* the bound, returns the perfect squares k with 1 <= k <= n, each once, in
\* increasing order; 16 gives [1, 4, 9, 16] and 0 gives [].
C3_SubtractSquarePossibleMoves ==
    CalledOn("get_possible_moves", "SubtractSquareState") =>
        /\ Range(ret.val) = {PyInt(k) : k \in {j \in 1..recv.number : IsSquare(j)}}
        /\ Increasing(ret.val)
        /\ (recv.number = 16
                => ret.val = <<PyInt(1), PyInt(4), PyInt(9), PyInt(16)>>)
        /\ (recv.number = 0 => ret.val = <<>>)

\* the moves of 16 have been listed, 16 among them
C3_Witness ==
    /\ CalledOn("get_possible_moves", "SubtractSquareState")
    /\ recv.number = 16
    /\ Len(ret.val) = 4
    /\ ret.val[4] = PyInt(16)

\* C4: SubtractSquareState.make_move(m), for any player, any number n and any
\* legal move m (a perfect square from 1 to n), returns the
\* SubtractSquareState of the other player with number n - m;
\* (p1,20).make_move(16) is (p2,4).
C4_SubtractSquareMakeMove ==
    /\ CalledOn("make_move", "SubtractSquareState")
    /\ ret.arg.val \in 1..recv.number
    /\ IsSquare(ret.arg.val)
    => /\ ret.val = SubtractSquareState(Opponent(recv.current_player),
                                        recv.number - ret.arg.val)
       /\ (recv = SubtractSquareState("p1", 20) /\ ret.arg = PyInt(16)
               => ret.val.current_player = "p2" /\ ret.val.number = 4)

\* 16 has been subtracted from (p1,20)
C4_Witness ==
    /\ CalledOn("make_move", "SubtractSquareState")
    /\ recv = SubtractSquareState("p1", 20)
    /\ ret.arg = PyInt(16)
    /\ ret.val.number = 4

\* C5: in every state a game of either kind reaches by legal moves, is_over
\* of the state is true iff get_possible_moves() is empty, and is_winner(p)
\* is true iff the game is over and p is not the player due to move: nobody
\* is a winner before the end, and at the end exactly one player is, the
\* one not due to move.
C5_OverAndWinner ==
    \A ord \in Orders :
        LET state == game.current_state
            empty == Len(get_possible_moves(state, ord)) = 0
            winners == {p \in Players : is_winner(game, p, ord)}
        IN  /\ is_over(state, ord) <=> empty
            /\ \A p \in Players :
                  is_winner(game, p, ord)
                      <=> (empty /\ state.current_player /= p)
            /\ ~empty => winners = {}
            /\ empty => winners = {Opponent(state.current_player)}

\* a game has been played to its end and p1 has won it
C5_Witness ==
    /\ last.mover = "p1"
    /\ \A ord \in Orders :
          /\ is_over(game.current_state, ord)
          /\ is_winner(game, "p1", ord)
          /\ ~is_winner(game, "p2", ord)

BothHandsDead(state, p) ==
    state.hands[HandOf(p, "l")] = 0 /\ state.hands[HandOf(p, "r")] = 0

\* C6: in every state a Chopsticks game reaches from [1,1,1,1] by legal
\* moves, get_possible_moves() is empty iff both hands of the player due to
\* move are 0, and then that player is not a winner and the other player is.
C6_ChopsticksTerminal ==
    game.type = "Chopsticks" =>
        \A ord \in Orders :
            LET state == game.current_state
                p == state.current_player
            IN  /\ Len(get_possible_moves(state, ord)) = 0
                       <=> BothHandsDead(state, p)
                /\ BothHandsDead(state, p) =>
                      /\ ~is_winner(game, p, ord)
                      /\ is_winner(game, Opponent(p), ord)

\* p2 is due to move with two dead hands, after a move of p1
C6_Witness ==
    /\ game.type = "Chopsticks"
    /\ game.current_state.current_player = "p2"
    /\ BothHandsDead(game.current_state, "p2")
    /\ last.mover = "p1"
    /\ \A ord \in Orders : get_possible_moves(game.current_state, ord) = <<>>

\* C7: in every state a SubtractSquare game reaches by legal moves, the game
\* is over iff number = 0; when it is over after at least one move (so for
\* every starting number >= 1), the last move was made at a number >= 1 and
\* subtracted exactly that number, the player who made it is the winner, and
\* the player due to move at 0 is not.
C7_SubtractSquareWinner ==
    game.type = "SubtractSquare" =>
        \A ord \in Orders :
            LET state == game.current_state IN
            /\ is_over(state, ord) <=> state.number = 0
            /\ is_over(state, ord) /\ last.mover = "none" =>
                  last.strategy = "none" /\ last.state = state
            /\ is_over(state, ord) /\ last.mover /= "none" =>
                  /\ last.state.current_player = last.mover
                  /\ last.state.number >= 1
                  /\ last.move.val = last.state.number
                  /\ state.current_player /= last.mover
                  /\ is_winner(game, last.mover, ord)
                  /\ ~is_winner(game, state.current_player, ord)

\* p2 has subtracted the last 4 and has won
C7_Witness ==
    /\ game.type = "SubtractSquare"
    /\ game.current_state.number = 0
    /\ last.mover = "p2"
    /\ last.move = PyInt(4)
    /\ \A ord \in Orders : is_winner(game, "p2", ord)

\* C8: the move random_strategy returns in a state of either game that is
\* not over is not None and is one of get_possible_moves() of that state, so
\* is_valid_move of it is true; str_to_move maps every possible move of a
\* reachable state to itself.
C8_RandomStrategy ==
    /\ last.strategy = "random" =>
          /\ last.move /= None
          /\ \A ord \in Orders :
                /\ In(last.move, get_possible_moves(last.state, ord))
                /\ is_valid_move(last.state, last.move, ord)
    /\ \A ord \in Orders :
          LET moves == get_possible_moves(game.current_state, ord)
          IN  \A k \in DOMAIN moves : str_to_move(game, moves[k]) = moves[k]

\* random_strategy has returned 'rr' in a game of Chopsticks and 9 in a
\* game of SubtractSquare
C8_Witness ==
    /\ last.strategy = "random"
    /\ \/ game.type = "Chopsticks" /\ last.move = rr
             /\ game.current_state /= last.state
       \/ game.type = "SubtractSquare" /\ last.move = PyInt(9)
             /\ game.current_state.number = last.state.number - 9

SameVariant(a, b) == a.type = b.type

\* two states of the same variant hold the same position
SamePosition(a, b) ==
    IF a.type = "SubtractSquareState" THEN a.number = b.number
    ELSE \A i \in 1..4 : a.hands[i] = b.hands[i]

\* C9: for any two states a and b, a == b iff they are of the same variant,
\* have the same current_player and hold the same position (the number, or
\* the 4 hand values in order); == is reflexive and symmetric, and a state of
\* one variant never equals a state of the other.
C9_StateEquality ==
    ret /= None /\ ret.op = "__eq__" =>
        /\ ret.val <=>
              /\ SameVariant(recv, other)
              /\ recv.current_player = other.current_player
              /\ SamePosition(recv, other)
        /\ ret.val = state_eq(other, recv)
        /\ state_eq(recv, recv)
        /\ state_eq(other, other)
        /\ ~SameVariant(recv, other) => ~ret.val

\* two Chopsticks states with the same hands and different players have
\* been compared
C9_Witness ==
    /\ ret /= None
    /\ ret.op = "__eq__"
    /\ recv.type = "ChopsticksState"
    /\ other.type = "ChopsticksState"
    /\ recv.hands = other.hands
    /\ recv.current_player /= other.current_player
    /\ ~ret.val

\* C10: for any two games g and h, each a SubtractSquare or a Chopsticks,
\* g == h iff they are of the same variant and have the same instructions;
\* the starting players and the current states play no part, so two games
\* of one variant are equal after any moves of either, and a SubtractSquare
\* never equals a Chopsticks.
C10_GameEquality ==
    ret /= None /\ ret.op = "__eq__" =>
        /\ ret.val <=>
              /\ SameVariant(game, other)
              /\ get_instructions(game) = get_instructions(other)
        /\ ret.val <=> SameVariant(game, other)
        /\ ret.val = Game_eq(other, game)

\* two games of Chopsticks with different starting players and different
\* current states, after moves of both, have been found equal
C10_Witness ==
    /\ ret /= None
    /\ ret.op = "__eq__"
    /\ game.type = "Chopsticks"
    /\ other.type = "Chopsticks"
    /\ game.player /= other.player
    /\ game.current_state.hands /= other.current_state.hands
    /\ game.current_state.hands /= <<1, 1, 1, 1>>
    /\ other.current_state.hands /= <<1, 1, 1, 1>>
    /\ ret.val

(***************************************************************************)
(* Objects told apart.  heap is the sequence of the objects made so far    *)
(* and the address of an object is its place in it.  A list is an object   *)
(* [type |-> "list", items]; a ChopsticksState object holds the address of *)
(* its list of hands; an int is a value.  ret records the last call of     *)
(* make_move: the address of the receiver, what the receiver was before    *)
(* the call, and the address of the state returned.  last.born holds, for  *)
(* every state object, what it was when it was made.                       *)
(***************************************************************************)
PyList(items) == [type |-> "list", items |-> items]

\* a new object: the heap with it, and its address
new(h, obj) == [heap |-> Append(h, obj), val |-> Len(h) + 1]

\* a bug: return_hands = self.hands, the receiver's own list
slice_alias(h, a) == [heap |-> h, val |-> a]

\* a_list[:], a new list with the same items
slice(h, a) == new(h, PyList(h[a].items))

\* the state object at address a, as a state of the classes above
deref(h, a) ==
    IF h[a].type = "ChopsticksState"
    THEN ChopsticksState(h[a].current_player, h[h[a].hands].items)
    ELSE h[a]

\* ChopsticksState.make_move, on objects
heap_ChopsticksState_make_move(h, self, move) ==
    LET me == h[self]
        change_index == hand_index[me.current_player][move]
        current_player_index == hand_index[me.current_player][char_at(move, 0)]
        copied == slice(h, me.hands)
        return_hands == copied.val
        h1 == copied.heap
        h2 == [h1 EXCEPT ![return_hands].items[change_index + 1] =
                  (h1[me.hands].items[change_index + 1]
                   + h1[me.hands].items[current_player_index + 1]) % 5]
    IN  new(h2, [type |-> "ChopsticksState",
                 current_player |-> new_player(me.current_player),
                 hands |-> return_hands])

\* SubtractSquareState.make_move, on objects
heap_SubtractSquareState_make_move(h, self, move) ==
    new(h, SubtractSquareState(new_player(h[self].current_player),
                               h[self].number - move.val))

\* state.make_move(move), dispatched on the class of the object
heap_make_move(h, self, move) ==
    IF h[self].type = "SubtractSquareState"
    THEN heap_SubtractSquareState_make_move(h, self, move)
    ELSE heap_ChopsticksState_make_move(h, self, move)

\* the addresses of the state objects
StateAddrs(h) == {a \in DOMAIN h : h[a].type /= "list"}

\* the moves make_move is called with, where objects are told apart
HeapMoveArgs(state) ==
    IF state.type = "ChopsticksState" THEN {ll, lr, rl, rr}
    ELSE {PyInt(m) : m \in 1..MaxEqNumber}

\* the heap after ChopsticksState(p, [h0, h1, h2, h3]) or
\* SubtractSquareState(p, n)
NewStateHeap(state) ==
    IF state.type = "ChopsticksState"
    THEN new(new(<<>>, PyList(state.hands)).heap,
             [type |-> "ChopsticksState",
              current_player |-> state.current_player, hands |-> 1])
    ELSE new(<<>>, state)

HeapMakeMove ==
    /\ Cardinality(StateAddrs(heap)) < MaxHeapStates
    /\ \E self \in StateAddrs(heap) :
          \E move \in HeapMoveArgs(deref(heap, self)) :
              LET out == heap_make_move(heap, self, move) IN
              /\ heap' = out.heap
              /\ ret' = [op |-> "make_move", self |-> self, arg |-> move,
                         val |-> out.val, before |-> deref(heap, self)]
              /\ last' = [born |-> last.born
                             \cup {<<out.val, deref(out.heap, out.val)>>}]
    /\ UNCHANGED <<game, other, recv>>

InitHeap ==
    /\ \E state \in States(MaxEqHand, MaxEqNumber) :
          /\ heap = NewStateHeap(state).heap
          /\ last = [born |-> {<<NewStateHeap(state).val, state>>}]
    /\ ret = None
    /\ game = None
    /\ other = None
    /\ recv = None

NextHeap == HeapMakeMove

SpecHeap == InitHeap /\ [][NextHeap]_vars

\* C11: make_move never changes its receiver.  Every state object, of either
\* variant, is at any later time what it was when it was made, whatever
\* moves were made on it or on the states made from it; the state a call
\* returns is another object than the receiver, it is the state the rules
\* give, and no two state objects share a list of hands.
C11_ReceiverUnchanged ==
    /\ \A b \in last.born : deref(heap, b[1]) = b[2]
    /\ \A a, b \in StateAddrs(heap) :
          a /= b /\ heap[a].type = "ChopsticksState"
                 /\ heap[b].type = "ChopsticksState"
              => heap[a].hands /= heap[b].hands
    /\ ret /= None =>
          /\ ret.val /= ret.self
          /\ ret.val \in StateAddrs(heap)
          /\ deref(heap, ret.self) = ret.before
          /\ deref(heap, ret.val) = make_move(ret.before, ret.arg)

\* a Chopsticks state was moved from, then the state that move returned was
\* moved from, each move changing a hand
C11_Witness ==
    /\ ret /= None
    /\ heap[2].type = "ChopsticksState"
    /\ Cardinality(StateAddrs(heap)) = 3
    /\ ret.self /= 2
    /\ ret.before.hands /= deref(heap, 2).hands
    /\ deref(heap, ret.val).hands /= ret.before.hands

\* C12: in every state a Chopsticks game reaches from [1,1,1,1] by legal
\* moves, hands is a list of exactly 4 integers, each from 0 to 4.
C12_HandRange ==
    game.type = "Chopsticks" =>
        /\ DOMAIN game.current_state.hands = 1..4
        /\ \A i \in 1..4 : game.current_state.hands[i] \in 0..4

\* a move has just brought a hand to 5, kept as 0, while another hand is 4
C12_Witness ==
    /\ game.type = "Chopsticks"
    /\ \E i, j \in 1..4 :
          /\ game.current_state.hands[i] = 0
          /\ last.state.hands[i] /= 0
          /\ game.current_state.hands[j] = 4

(***************************************************************************)
(* str_to_move called on any value: ret records the value and the outcome. *)
(***************************************************************************)
\* the characters of the strings given to str_to_move
ParseChars == {"0", "1", "4", "9", "-", "l", "r", "a", "sup2"}

\* the values given to str_to_move: strings, and ints of either sign
ParseInputs ==
    {PyStr(s) : s \in UNION {[1..n -> ParseChars] : n \in 0..MaxParseLen}}
    \cup {PyInt(n) : n \in (0 - MaxParseInt)..MaxParseInt}

CallStrToMove ==
    /\ \E move \in ParseInputs :
          ret' = [op |-> "str_to_move", arg |-> move,
                  val |-> str_to_move(game, move)]
    /\ UNCHANGED <<game, last, other, recv, heap>>

InitParse ==
    /\ game \in NewGames(MaxEqNumber)
    /\ ret = None
    /\ last = None
    /\ other = None
    /\ recv = None
    /\ heap = <<>>

NextParse == CallStrToMove

SpecParse == InitParse /\ [][NextParse]_vars

\* a string is integer-like: decimal digits, after a minus sign or not
IntegerLike(s) ==
    /\ Len(s) > 0
    /\ LET digits == IF s[1] = "-" THEN Tail(s) ELSE s
       IN  Len(digits) > 0 /\ \A i \in DOMAIN digits : digits[i] \in DecimalDigits

IntegerOf(s) == IF s[1] = "-" THEN 0 - int(Tail(s)) ELSE int(s)

\* the input SubtractSquare accepts, by the claim: an int >= 0, or an
\* integer-like string of a number >= 0
Acceptable(move) ==
    \/ move.type = "int" /\ move.val >= 0
    \/ move.type = "str" /\ IntegerLike(move.val) /\ IntegerOf(move.val) >= 0

\* C13: str_to_move never fails; SubtractSquare returns the integer for an
\* int >= 0 and for an integer-like string of a number >= 0, and None for
\* everything else, negative values included; Chopsticks returns the token
\* when the input is one of 'll', 'lr', 'rl', 'rr', and None otherwise.
C13_ParseMove ==
    ret /= None /\ ret.op = "str_to_move" =>
        /\ ret.val.type /= "raise"
        /\ game.type = "SubtractSquare" =>
              IF Acceptable(ret.arg)
              THEN ret.val = PyInt(IF ret.arg.type = "int" THEN ret.arg.val
                                   ELSE IntegerOf(ret.arg.val))
              ELSE ret.val = None
        /\ game.type = "Chopsticks" =>
              ret.val = IF ret.arg \in Tokens THEN ret.arg ELSE None

\* the index in hands (from 0, as in the code) of the acting hand
ActingIndex(p, token) ==
    IF p = "p1" THEN (IF token.val[1] = "l" THEN 0 ELSE 1)
    ELSE (IF token.val[1] = "l" THEN 2 ELSE 3)

\* the index of the target hand when P1 acts, as the claim has it, mirrored
\* when P2 acts
ClaimedTargetIndex(p, token) ==
    LET of_p1 == CASE token = ll -> 0 [] token = rl -> 0
                   [] token = lr -> 1 [] token = rr -> 1
    IN  IF p = "p1" THEN of_p1 ELSE of_p1 + 2

\* the index of the target hand: a hand of the opponent
OpponentTargetIndex(p, token) ==
    LET of_p2 == CASE token = ll -> 0 [] token = rl -> 0
                   [] token = lr -> 1 [] token = rr -> 1
    IN  IF p = "p2" THEN of_p2 ELSE of_p2 + 2

\* make_move has resolved the token to the acting index src and the target
\* index tgt: the table gives them and the hands returned show them
Resolved(src, tgt) ==
    /\ hand_index[recv.current_player][char_at(ret.arg, 0)] = src
    /\ hand_index[recv.current_player][ret.arg] = tgt
    /\ ret.val.hands =
          [recv.hands EXCEPT ![tgt + 1] =
              (recv.hands[tgt + 1] + recv.hands[src + 1]) % 5]

\* C14, as claimed: in make_move the acting hand has index l=0, r=1 when P1
\* is to move and l=2, r=3 when P2 is; the target hand has index ll->0,
\* rl->0, lr->1, rr->1 when P1 acts and ll->2, rl->2, lr->3, rr->3 when P2
\* acts.
C14_AsClaimed ==
    CalledOn("make_move", "ChopsticksState") =>
        Resolved(ActingIndex(recv.current_player, ret.arg),
                 ClaimedTargetIndex(recv.current_player, ret.arg))

\* C14, amended: in make_move the acting hand has index l=0, r=1 when P1 is
\* to move and l=2, r=3 when P2 is; the target hand is a hand of the
\* opponent: index ll->2, rl->2, lr->3, rr->3 when P1 acts and ll->0, rl->0,
\* lr->1, rr->1 when P2 acts.
C14_HandIndex ==
    CalledOn("make_move", "ChopsticksState") =>
        Resolved(ActingIndex(recv.current_player, ret.arg),
                 OpponentTargetIndex(recv.current_player, ret.arg))

\* P1's right hand (2) has touched P2's left hand (3), index 2, now 0
C14_Witness ==
    /\ CalledOn("make_move", "ChopsticksState")
    /\ recv = ChopsticksState("p1", <<1, 2, 3, 4>>)
    /\ ret.arg = rl
    /\ ret.val.hands = <<1, 2, 0, 4>>

\* C15: in either game, every make_move gives the turn to the other player:
\* after k moves of a game constructed with starting player p, the player due
\* to move is p when k is even and the other player when k is odd;
\* current_player is always p1 or p2, and the player of the game stays the
\* starting player.
C15_TurnAlternation ==
    LET state == game.current_state IN
    /\ game.player = last.start
    /\ state.current_player \in Players
    /\ state.current_player =
          IF last.odd THEN Opponent(last.start) ELSE last.start
    /\ \A ord \in Orders :
          LET moves == get_possible_moves(state, ord) IN
          \A k \in DOMAIN moves :
              make_move(state, moves[k]).current_player
                  = Opponent(state.current_player)

\* after an even number of moves, the last one by p1, p2 who started is due
\* to move again
C15_Witness ==
    /\ ~last.odd
    /\ last.mover = "p1"
    /\ last.start = "p2"
    /\ game.player = "p2"
    /\ game.current_state.current_player = "p2"

\* C16: SubtractSquareState.make_move does not validate: for a move m that
\* is not legal (m > number, or m not a perfect square) it returns, without
\* an error, the state of the other player with number - m; when m > number
\* that number is negative, the state has no possible move, so the game is
\* over in it, and the player who made the illegal move is the winner.
C16_UncheckedMove ==
    /\ CalledOn("make_move", "SubtractSquareState")
    /\ ret.arg.val > recv.number \/ ~IsSquare(ret.arg.val)
    => /\ ret.val = SubtractSquareState(Opponent(recv.current_player),
                                        recv.number - ret.arg.val)
       /\ ret.arg.val > recv.number =>
             LET played == [type |-> "SubtractSquare",
                            player |-> recv.current_player,
                            current_state |-> ret.val]
             IN  /\ ret.val.number < 0
                 /\ \A ord \in Orders :
                       /\ get_possible_moves(ret.val, ord) = <<>>
                       /\ is_over(ret.val, ord)
                       /\ is_winner(played, recv.current_player, ord)
                       /\ ~is_winner(played, ret.val.current_player, ord)

\* 9 has been subtracted from (p1,4): the number is -5
C16_Witness ==
    /\ CalledOn("make_move", "SubtractSquareState")
    /\ recv = SubtractSquareState("p1", 4)
    /\ ret.arg = PyInt(9)
    /\ ret.val = SubtractSquareState("p2", 0 - 5)

\* a step of a Chopsticks game leaves every dead hand dead
DeadStaysDead ==
    game.type = "Chopsticks" =>
        \A i \in 1..4 :
            game.current_state.hands[i] = 0 => game'.current_state.hands[i] = 0

\* in the current state of a Chopsticks game, a possible move has its acting
\* hand and its target hand alive, and a token that would bring a dead hand
\* back is no possible move: its target hand is the dead one
RevivalIsNoPossibleMove ==
    game.type = "Chopsticks" =>
        LET state == game.current_state
            p == state.current_player
        IN  \A token \in Tokens, ord \in Orders :
                /\ is_valid_move(state, token, ord) =>
                      /\ state.hands[ActingHand(p, token)] /= 0
                      /\ state.hands[TargetHand(p, token)] /= 0
                /\ (\E i \in 1..4 :
                        /\ state.hands[i] = 0
                        /\ make_move(state, token).hands[i] /= 0)
                   => /\ ~is_valid_move(state, token, ord)
                      /\ state.hands[TargetHand(p, token)] = 0

\* C17: under legal play of Chopsticks from [1,1,1,1] a dead hand stays
\* dead: once hands[i] = 0 it is 0 in every later state, because a move
\* whose acting or target hand is 0 is never a possible move; only a token
\* that is_valid_move rejects, one whose target hand is dead, would make a 0
\* hand non-zero again.
C17_DeadStaysDead == [][DeadStaysDead]_vars /\ []RevivalIsNoPossibleMove

\* a move has been made in a state with a dead hand, which is still dead
C17_Witness ==
    /\ game.type = "Chopsticks"
    /\ last.mover /= "none"
    /\ game.current_state /= last.state
    /\ \E i \in 1..4 :
          /\ last.state.hands[i] = 0
          /\ game.current_state.hands[i] = 0
          /\ \E token \in Tokens :
                make_move(game.current_state, token).hands[i] /= 0

\* C18: in every state a Chopsticks game reaches from [1,1,1,1] by legal
\* moves, the player who is not due to move has a hand that is not 0; so
\* the four hands are never all 0, no state is terminal because of the
\* opponent's hands alone, and in a terminal state exactly one player has
\* two dead hands.
C18_OpponentAlive ==
    game.type = "Chopsticks" =>
        LET state == game.current_state
            p == state.current_player
        IN  /\ ~BothHandsDead(state, Opponent(p))
            /\ \E i \in 1..4 : state.hands[i] /= 0
            /\ \A ord \in Orders :
                  /\ ~BothHandsDead(state, p) => ~is_over(state, ord)
                  /\ is_over(state, ord) =>
                        {q \in Players : BothHandsDead(state, q)} = {p}

\* a Chopsticks game has been played to a terminal state: the player due
\* to move has two dead hands and the player who moved has a live one
C18_Witness ==
    /\ game.type = "Chopsticks"
    /\ last.mover = Opponent(game.current_state.current_player)
    /\ \A ord \in Orders : is_over(game.current_state, ord)
    /\ BothHandsDead(game.current_state, game.current_state.current_player)
    /\ ~BothHandsDead(game.current_state, last.mover)

(***************************************************************************)
(* A SubtractSquare game played by legal moves only, to its end: last      *)
(* counts the moves made and keeps the starting number.  The loop that     *)
(* plays a game asks for a move until the game is over, and a strategy     *)
(* that returns possible moves only (random_strategy) always makes one, so *)
(* a legal move that stays possible is eventually made.                    *)
(***************************************************************************)
LegalMove ==
    \E ord \in Orders :
        /\ ~is_over(game.current_state, ord)
        /\ \E k \in DOMAIN get_possible_moves(game.current_state, ord) :
              game' = play(game, random_strategy(game, ord, k), ord)
        /\ last' = [turns |-> last.turns + 1, start |-> last.start]
        /\ UNCHANGED <<other, recv, ret, heap>>

InitSS ==
    /\ game \in {SubtractSquare(b, n) : b \in BOOLEAN, n \in 0..MaxNumber}
    /\ last = [turns |-> 0, start |-> game.current_state.number]
    /\ other = None
    /\ recv = None
    /\ ret = None
    /\ heap = <<>>

NextSS == LegalMove

SpecSS == InitSS /\ [][NextSS]_vars /\ WF_vars(NextSS)

\* the number is never negative, a number >= 1 has the legal move 1, the game
\* is over exactly at 0, and k moves have taken at least k off the number: at
\* most start moves are made, and at least 1 before a game from n >= 1 ends
NumberBounded ==
    \A ord \in Orders :
        LET state == game.current_state IN
        /\ state.number >= 0
        /\ state.number >= 1 => In(PyInt(1), get_possible_moves(state, ord))
        /\ is_over(state, ord) <=> state.number = 0
        /\ last.turns <= last.start - state.number
        /\ last.turns <= last.start
        /\ is_over(state, ord) /\ last.start >= 1 => last.turns >= 1

\* a legal move makes the number strictly smaller
NumberDecreases == game'.current_state.number < game.current_state.number

\* C19: SubtractSquare ends under legal play: from any starting number
\* n >= 0 the number stays >= 0 and gets strictly smaller with every legal
\* move, every number >= 1 has the legal move 1, and every maximal sequence
\* of legal moves reaches number = 0, where the game is over, after at
\* least 1 move (for n >= 1) and at most n moves.
C19_Terminates ==
    /\ []NumberBounded
    /\ [][NumberDecreases]_vars
    /\ <>(game.current_state.number = 0
              /\ \A ord \in Orders : is_over(game.current_state, ord))

\* a game from a number >= 2 has ended after as many moves as the number
C19_Witness ==
    /\ last.start >= 2
    /\ last.turns = last.start
    /\ game.current_state.number = 0
    /\ \A ord \in Orders : is_over(game.current_state, ord)

(***************************************************************************)
(* A Chopsticks game played by legal moves only.  last counts the arrivals *)
(* at CycleState and keeps the moves of CycleOpening that began the game,  *)
(* the two moves that lead from (p1,[1,1,1,1]) to CycleState; exact tells  *)
(* that no other move has been made.                                       *)
(***************************************************************************)
CycleState == ChopsticksState("p1", <<1, 3, 2, 1>>)

CycleOpening == <<ll, lr>>

\* move is the next move of CycleOpening in a game that has followed it
follows(exact, opening, move) ==
    /\ exact
    /\ Len(opening) < Len(CycleOpening)
    /\ CycleOpening[Len(opening) + 1] = move

CycleMove ==
    \E ord \in Orders :
        /\ ~is_over(game.current_state, ord)
        /\ \E k \in DOMAIN get_possible_moves(game.current_state, ord) :
              LET move == random_strategy(game, ord, k)
                  played == play(game, move, ord)
                  arrives == state_eq(played.current_state, CycleState)
              IN  /\ arrives => last.visits < MaxVisits
                  /\ game' = played
                  /\ last' = [visits |-> IF arrives THEN last.visits + 1
                                         ELSE last.visits,
                              opening |->
                                  IF follows(last.exact, last.opening, move)
                                  THEN Append(last.opening, move)
                                  ELSE last.opening,
                              exact |->
                                  follows(last.exact, last.opening, move)]
        /\ UNCHANGED <<other, recv, ret, heap>>

InitCycle ==
    /\ game \in {Chopsticks(b) : b \in BOOLEAN}
    /\ last = [visits |-> 0, opening |-> <<>>, exact |-> TRUE]
    /\ other = None
    /\ recv = None
    /\ ret = None
    /\ heap = <<>>

NextCycle == CycleMove

SpecCycle == InitCycle /\ [][NextCycle]_vars

RECURSIVE Replay(_, _)
\* the state after the moves, made one after the other from state, each of
\* them a possible move of the state it is made in whatever the order of the
\* list; None if one of them is not
Replay(state, moves) ==
    IF moves = <<>> THEN state
    ELSE IF \A ord \in Orders : is_valid_move(state, Head(moves), ord)
         THEN Replay(make_move(state, Head(moves)), Tail(moves))
         ELSE None

\* C20: Chopsticks need not end under legal play: the states reachable from
\* (p1,[1,1,1,1]) hold a cycle.  The state (p1,[1,3,2,1]) is the one reached
\* by ll then lr, and from it the four legal moves rr, rr, rr, rr lead, by
\* way of other states, back to an equal state, one with the same
\* current_player and hands; a terminal state is reachable as well.
C20_Cycle ==
    LET state == game.current_state IN
    /\ (/\ game.player = "p1"
        /\ last.exact
        /\ last.opening = CycleOpening) =>
          /\ state_eq(state, CycleState)
          /\ state = CycleState
          /\ last.visits = 1
    /\ state_eq(state, CycleState) =>
          LET back == Replay(state, <<rr, rr, rr, rr>>) IN
          /\ last.visits >= 1
          /\ \A n \in 1..3 :
                LET mid == Replay(state, SubSeq(<<rr, rr, rr>>, 1, n)) IN
                /\ mid /= None
                /\ ~state_eq(mid, state)
          /\ back /= None
          /\ state_eq(back, state)
          /\ back.current_player = state.current_player
          /\ back.hands = state.hands

\* a game p1 opened with ll, answered by lr, has come back to the state it
\* was in after these two moves and has then been played to its end
C20_Witness ==
    /\ game.player = "p1"
    /\ last.opening = CycleOpening
    /\ last.visits >= 2
    /\ \A ord \in Orders : is_over(game.current_state, ord)

====
